---- MODULE Spec2Model ----
(***************************************************************************)
(* Model of mainapp.py: a Streamlit script that is re-executed from top to *)
(* bottom on every user interaction of a session.  One run of the script   *)
(* is one action.  The session keeps the password_correct flag; the        *)
(* snapshot is what json.load yields for the session (or None).            *)
(***************************************************************************)
EXTENDS Integers, Sequences, FiniteSets, TLC

\* ------------------------------------------------------------------ bounds
\* total number of used_datasets entries over all dashboards of a snapshot
MaxRefs == 3

\* ------------------------------------------------------------------ inputs
\* dataset identifiers (the arn field); opaque, compared by equality only
Arns == {"a1", "a2", "a3"}
\* the arn, and the id, of the first, second, ... dataset of a snapshot
ArnOrder == <<"a1", "a2", "a3">>
DatasetIds == <<"ds1", "ds2", "ds3">>
\* the id of the first, second, ... dashboard of a snapshot
DashboardIds == <<"d1", "d2">>
\* display names of dashboards and datasets (not unique)
Names == {"Ops", "Sales"}
\* what the user can type into the password field
Passwords == {"secret", "guess"}
\* st.secrets["APP_PASSWORD"]
APP_PASSWORD == "secret"
\* data = None; a loaded document doc is held as <<doc>>
None == <<>>
\* the default of arn_to_name.get
UnknownDataset == "Unknown Dataset"
\* Node colours: dashboards orange, datasets blue; Edge colour grey
Orange == "#FF9900"
Blue == "#00BFFF"
Grey == "#bdc3c7"

Range(s) == {s[i] : i \in 1..Len(s)}

\* sequences over S of length exactly n
SeqsOfLen(S, n) == [1..n -> S]

\* the shapes of the used_datasets lists of d dashboards holding at most r
\* references in all: duplicates and identifiers without a dataset allowed
RECURSIVE UsedShapes(_, _)
UsedShapes(d, r) ==
    IF d = 0 THEN {<<>>}
    ELSE {<<>>} \cup
         UNION { { <<[name |-> n, used_datasets |-> u]>> \o rest :
                     n \in Names, u \in SeqsOfLen(Arns, k),
                     rest \in UsedShapes(d - 1, r - k) }
                 : k \in 0..r }

\* dashboards of a snapshot: at most one per id of DashboardIds, ids unique
DashboardSeqs ==
    { [i \in 1..Len(s) |-> [id |-> DashboardIds[i], name |-> s[i].name,
                            used_datasets |-> s[i].used_datasets]] :
        s \in UsedShapes(Len(DashboardIds), MaxRefs) }

\* datasets of a snapshot: arn unique (the k datasets take the first k
\* identifiers of ArnOrder, the remaining identifiers can only dangle),
\* names free, id unique
DatasetSeqs ==
    UNION { { [i \in 1..k |-> [id |-> DatasetIds[i], name |-> nm[i],
                               arn |-> ArnOrder[i]]] :
                nm \in SeqsOfLen(Names, k) }
            : k \in 0..Len(ArnOrder) }

\* every document with both top-level keys
Snapshots == [dashboards : DashboardSeqs, datasets : DatasetSeqs]

\* ------------------------------------------------------------------ pandas
\* pd.DataFrame(list of dicts): the rows in order; the columns are the keys of
\* the dicts, so a frame made from an empty list has no columns at all
DataFrame(records) == records
Columns(df) == IF Len(df) = 0 THEN {} ELSE DOMAIN df[1]

\* Python's order on the display names (str comparison)
NameOrder == <<"Ops", "Sales", "Unknown Dataset">>
NameRank(n) == CHOOSE i \in 1..Len(NameOrder) : NameOrder[i] = n

\* Series.sort_values(): ascending
RECURSIVE SortValues(_)
SortValues(s) ==
    IF Len(s) = 0 THEN <<>>
    ELSE LET m == CHOOSE i \in 1..Len(s) :
                     /\ \A j \in 1..Len(s) : NameRank(s[i]) <= NameRank(s[j])
                     /\ \A j \in 1..(i - 1) : s[j] /= s[i]
             rest == [j \in 1..(Len(s) - 1) |-> IF j < m THEN s[j] ELSE s[j + 1]]
         IN <<s[m]>> \o SortValues(rest)

\* ------------------------------------------------------------------ core
\* dict(zip(df_data['arn'], df_data['name'])): a later row replaces an earlier
\* one with the same arn
ArnToName(df) ==
    [a \in {df[i].arn : i \in 1..Len(df)} |->
        df[CHOOSE i \in 1..Len(df) :
               /\ df[i].arn = a
               /\ \A j \in (i + 1)..Len(df) : df[j].arn /= a].name]

\* all_used_arns after the loop of extend calls
RECURSIVE AllUsedArns(_)
AllUsedArns(df) ==
    IF Len(df) = 0 THEN <<>>
    ELSE AllUsedArns(SubSeq(df, 1, Len(df) - 1)) \o df[Len(df)].used_datasets

\* set(all_used_arns)
UniqueUsedArns(all) == Range(all)

\* the filter reading the id column instead of the arn column
IsOrphanRowById(row, used) == row.id \notin used

\* df_data[~df_data['arn'].isin(unique_used_arns)]
IsOrphanRow(row, used) == row.arn \notin used
\* the orphans in reverse row order
OrphansReversed(df, used) ==
    LET o == SelectSeq(df, LAMBDA row : IsOrphanRow(row, used))
    IN [i \in 1..Len(o) |-> o[Len(o) + 1 - i]]
Orphans(df, used) == SelectSeq(df, LAMBDA row : IsOrphanRow(row, used))

\* the options of the selectbox
SelectOptions(df) == SortValues([i \in 1..Len(df) |-> df[i].name])

\* .values[-1]: the last row with the selected name
SelectedArnLast(df, selected) ==
    LET m == SelectSeq(df, LAMBDA row : row.name = selected) IN m[Len(m)].arn

\* df_data[df_data['name'] == selected_dataset_name]['arn'].values[0]
SelectedArn(df, selected) ==
    SelectSeq(df, LAMBDA row : row.name = selected)[1].arn

\* a test of the first entry of the list only
UsesArnFirst(x, arn) == Len(x) > 0 /\ x[1] = arn

\* df_dash[df_dash['used_datasets'].apply(lambda x: selected_arn in x)]
UsesArn(x, arn) == arn \in Range(x)
Affected(df, arn) == SelectSeq(df, LAMBDA row : UsesArn(row.used_datasets, arn))

\* arn_to_name.get(arn, "Unknown Dataset")
Get(map, arn) == IF arn \in DOMAIN map THEN map[arn] ELSE UnknownDataset

\* Node(id=row['name'], label=row['name'], size=25, shape="dot", color=orange)
DashboardNode(row) ==
    [id |-> row.name, label |-> row.name, size |-> 25, shape |-> "dot",
     color |-> Orange]

\* Node(id=ds_name, label=ds_name, size=15, shape="dot", color=blue)
DatasetNode(arn, map) ==
    [id |-> Get(map, arn), label |-> Get(map, arn), size |-> 15, shape |-> "dot",
     color |-> Blue]

\* an edge drawn from the dashboard to the dataset
MakeEdgeReversed(ds_name, row) ==
    [source |-> row.name, target |-> ds_name, color |-> Grey]

\* Edge(source=ds_name, target=row['name'], color=grey)
MakeEdge(ds_name, row) == [source |-> ds_name, target |-> row.name, color |-> Grey]

\* one edge per distinct entry of used_datasets
RowEdgesDistinct(row, map) ==
    LET u == row.used_datasets
        first == SelectSeq([k \in 1..Len(u) |-> k],
                           LAMBDA k : \A j \in 1..(k - 1) : u[j] /= u[k])
    IN [k \in 1..Len(first) |-> MakeEdge(Get(map, u[first[k]]), row)]

\* the edges of one dashboard row: one per entry of its used_datasets
RowEdges(row, map) ==
    [k \in 1..Len(row.used_datasets) |-> MakeEdge(Get(map, row.used_datasets[k]), row)]

\* edges after the loop over df_dash.iterrows()
RECURSIVE Edges(_, _)
Edges(df, map) ==
    IF Len(df) = 0 THEN <<>>
    ELSE Edges(SubSeq(df, 1, Len(df) - 1), map) \o RowEdges(df[Len(df)], map)

\* the orders in which "for arn in unique_used_arns" can visit a Python set
Iterations(S) ==
    { f \in SeqsOfLen(S, Cardinality(S)) :
        \A i, j \in 1..Cardinality(S) : i /= j => f[i] /= f[j] }

\* nodes: the dashboard nodes in row order, then one node per visited arn
Nodes(df, map, order) ==
    [i \in 1..Len(df) |-> DashboardNode(df[i])] \o
    [i \in 1..Len(order) |-> DatasetNode(order[i], map)]

\* a check that accepts whatever was typed
PasswordOkAny(pw) == pw /= ""

\* password == st.secrets["APP_PASSWORD"]
PasswordOk(pw) == pw = APP_PASSWORD

\* ------------------------------------------------------------------ state
VARIABLES
    source,                 \* what the loader finds for the session: None or <<doc>>
    password_correct,       \* st.session_state["password_correct"]
    password,               \* the text of the password field in the last run
    login_pressed,          \* whether the last run was started by the Login button
    page,                   \* how the last run of the script ended
    exception,              \* the exception that ended it, "" for none
    data,                   \* script variables of the last run; unset ones are empty
    df_dash, df_data, arn_to_name, all_used_arns, unique_used_arns, orphans,
    selected_dataset_name, selected_arn, affected, nodes, edges

session == <<source, password_correct>>
widgets == <<password, login_pressed>>
index == <<arn_to_name, all_used_arns, unique_used_arns>>
tabs == <<orphans, selected_dataset_name, selected_arn, affected, nodes, edges>>
vars == <<session, widgets, page, exception, data, df_dash, df_data, index, tabs>>

EmptyDict == [a \in {} |-> ""]

\* the script's variables that a run has not assigned
UnsetIndex ==
    /\ arn_to_name' = EmptyDict
    /\ all_used_arns' = <<>>
    /\ unique_used_arns' = {}
UnsetTabs ==
    /\ orphans' = <<>>
    /\ selected_dataset_name' = ""
    /\ selected_arn' = ""
    /\ affected' = <<>>
    /\ nodes' = <<>>
    /\ edges' = <<>>
UnsetCore ==
    /\ data' = None
    /\ df_dash' = <<>>
    /\ df_data' = <<>>
    /\ UnsetIndex
    /\ UnsetTabs

Init ==
    /\ source \in {None} \cup {<<doc>> : doc \in Snapshots}
    /\ password_correct = FALSE
    /\ password = ""
    /\ login_pressed = FALSE
    /\ page = "none"
    /\ exception = ""
    /\ data = None
    /\ df_dash = <<>>
    /\ df_data = <<>>
    /\ arn_to_name = EmptyDict
    /\ all_used_arns = <<>>
    /\ unique_used_arns = {}
    /\ orphans = <<>>
    /\ selected_dataset_name = ""
    /\ selected_arn = ""
    /\ affected = <<>>
    /\ nodes = <<>>
    /\ edges = <<>>

\* ------------------------------------------------------------------ runs
\* A run that check_password ends without the Login button pressed: the
\* prompt is shown and st.stop() ends the run.
RunPrompt(pw) ==
    /\ ~password_correct
    /\ password' = pw
    /\ login_pressed' = FALSE
    /\ page' = "login"
    /\ exception' = ""
    /\ UnsetCore
    /\ UNCHANGED session

\* Login pressed with a password that is not the configured one
RunLoginRejected(pw) ==
    /\ ~password_correct
    /\ ~PasswordOk(pw)
    /\ password' = pw
    /\ login_pressed' = TRUE
    /\ page' = "login_error"
    /\ exception' = ""
    /\ UnsetCore
    /\ UNCHANGED session

\* Login pressed with the configured password: the flag is set and st.rerun()
\* abandons this run in favour of a new one
RunLoginAccepted(pw) ==
    /\ ~password_correct
    /\ PasswordOk(pw)
    /\ password' = pw
    /\ login_pressed' = TRUE
    /\ password_correct' = TRUE
    /\ page' = "rerun"
    /\ exception' = ""
    /\ UnsetCore
    /\ UNCHANGED source

\* An authenticated run that finds neither the file nor an upload
RunStartScreen ==
    /\ password_correct
    /\ source = None
    /\ data' = None
    /\ page' = "start"
    /\ exception' = ""
    /\ df_dash' = <<>>
    /\ df_data' = <<>>
    /\ UnsetIndex
    /\ UnsetTabs
    /\ UNCHANGED <<session, widgets>>

\* An authenticated run whose df_data['arn'] raises: the datasets frame has
\* no such column
RunKeyErrorArn ==
    /\ password_correct
    /\ source /= None
    /\ LET doc == source[1] IN
        /\ "arn" \notin Columns(DataFrame(doc.datasets))
        /\ data' = source
        /\ df_dash' = DataFrame(doc.dashboards)
        /\ df_data' = DataFrame(doc.datasets)
    /\ page' = "exception"
    /\ exception' = "KeyError: 'arn'"
    /\ UnsetIndex
    /\ UnsetTabs
    /\ UNCHANGED <<session, widgets>>

\* An authenticated run whose df_dash['used_datasets'] raises
RunKeyErrorUsed ==
    /\ password_correct
    /\ source /= None
    /\ LET doc == source[1] IN
        /\ "arn" \in Columns(DataFrame(doc.datasets))
        /\ "used_datasets" \notin Columns(DataFrame(doc.dashboards))
        /\ data' = source
        /\ df_dash' = DataFrame(doc.dashboards)
        /\ df_data' = DataFrame(doc.datasets)
        /\ arn_to_name' = ArnToName(DataFrame(doc.datasets))
    /\ all_used_arns' = <<>>
    /\ unique_used_arns' = {}
    /\ page' = "exception"
    /\ exception' = "KeyError: 'used_datasets'"
    /\ UnsetTabs
    /\ UNCHANGED <<session, widgets>>

\* An authenticated run that reaches the end of the script.  opt is the
\* position the user holds in the selectbox, order the order in which the set
\* of used arns is visited.
RunCore ==
    /\ password_correct
    /\ source /= None
    /\ "arn" \in Columns(DataFrame(source[1].datasets))
    /\ "used_datasets" \in Columns(DataFrame(source[1].dashboards))
    /\ data' = source
    /\ df_dash' = DataFrame(source[1].dashboards)
    /\ df_data' = DataFrame(source[1].datasets)
    /\ arn_to_name' = ArnToName(df_data')
    /\ all_used_arns' = AllUsedArns(df_dash')
    /\ unique_used_arns' = UniqueUsedArns(all_used_arns')
    /\ orphans' = Orphans(df_data', unique_used_arns')
    /\ \E opt \in 1..Len(df_data') :
          selected_dataset_name' = SelectOptions(df_data')[opt]
    /\ selected_arn' = SelectedArn(df_data', selected_dataset_name')
    /\ affected' = Affected(df_dash', selected_arn')
    /\ \E order \in Iterations(unique_used_arns') :
          nodes' = Nodes(df_dash', arn_to_name', order)
    /\ edges' = Edges(df_dash', arn_to_name')
    /\ page' = "core"
    /\ exception' = ""
    /\ UNCHANGED <<session, widgets>>

Next ==
    \/ \E pw \in Passwords : RunPrompt(pw)
    \/ \E pw \in Passwords : RunLoginRejected(pw)
    \/ \E pw \in Passwords : RunLoginAccepted(pw)
    \/ RunStartScreen
    \/ RunKeyErrorArn
    \/ RunKeyErrorUsed
    \/ RunCore

Spec == Init /\ [][Next]_vars

\* ------------------------------------------------------------------ claims
\* the last run reached the end of the script
CoreDone == page = "core"
\* the last run entered the core with a loaded document
CoreEntered == page \in {"core", "exception"}

Doc == source[1]

\* the identifiers some dashboard of the document references
ReferencedArns(doc) ==
    { a \in Arns : \E i \in 1..Len(doc.dashboards) :
                     \E k \in 1..Len(doc.dashboards[i].used_datasets) :
                        doc.dashboards[i].used_datasets[k] = a }

\* the identifiers referenced without a Dataset record
DanglingArns(doc) ==
    { a \in ReferencedArns(doc) :
        \A i \in 1..Len(doc.datasets) : doc.datasets[i].arn /= a }

\* the display name an identifier stands for in the graph
NameOf(doc, a) ==
    IF \E i \in 1..Len(doc.datasets) : doc.datasets[i].arn = a
    THEN (CHOOSE d \in Range(doc.datasets) : d.arn = a).name
    ELSE UnknownDataset

\* the number of references held by the first n dashboards
RECURSIVE RefCount(_, _)
RefCount(doc, n) ==
    IF n = 0 THEN 0
    ELSE RefCount(doc, n - 1) + Len(doc.dashboards[n].used_datasets)

\* some used_datasets list names an identifier twice
HasDuplicateRef(doc) ==
    \E i \in 1..Len(doc.dashboards) :
        \E j, k \in 1..Len(doc.dashboards[i].used_datasets) :
            j /= k /\ doc.dashboards[i].used_datasets[j]
                        = doc.dashboards[i].used_datasets[k]

\* positions of the blue (dataset) nodes
DatasetNodeIdx == { i \in 1..Len(nodes) : nodes[i].color = Blue }

\* C1: after a run of the core, every dataset of the snapshot is either in
\* the orphan set or has a referenced identifier, never both, never neither,
\* and the orphan set holds datasets of the snapshot only.
C1_Partition ==
    CoreDone =>
        /\ Range(orphans) \subseteq Range(Doc.datasets)
        /\ \A i \in 1..Len(Doc.datasets) :
              (Doc.datasets[i] \in Range(orphans))
                 /= (Doc.datasets[i].arn \in ReferencedArns(Doc))

C1_Witness ==
    /\ CoreDone
    /\ HasDuplicateRef(Doc)
    /\ DanglingArns(Doc) /= {}
    /\ Len(orphans) = 1
    /\ Len(Doc.datasets) = 2

\* C2: for every dataset identifier D of the snapshot the dashboards that
\* use D are none exactly when the dataset D is an orphan; so for the
\* identifier the user selected.
C2_ImpactEmptyIffOrphan ==
    CoreDone =>
        /\ \A i \in 1..Len(df_data) :
              (Affected(df_dash, df_data[i].arn) = <<>>)
                 <=> (df_data[i] \in Range(orphans))
        /\ (affected = <<>>)
              <=> (\E i \in 1..Len(orphans) : orphans[i].arn = selected_arn)

\* Scenario A of the specification
C2_Witness ==
    /\ CoreDone
    /\ Len(Doc.dashboards) = 2
    /\ Doc.dashboards[1].used_datasets = <<"a1", "a2">>
    /\ Doc.dashboards[2].used_datasets = <<"a1">>
    /\ Len(Doc.datasets) = 3
    /\ Len(orphans) = 1 /\ orphans[1].arn = "a3"
    /\ selected_arn = "a1"
    /\ affected = df_dash
    /\ Affected(df_dash, "a3") = <<>>

\* C3: the graph has as many edges as there are (dashboard, used identifier)
\* pairs, duplicates counted, as many dataset nodes as there are distinct
\* referenced identifiers, and every dataset node stands for a referenced
\* identifier.
C3_GraphCompleteness ==
    CoreDone =>
        /\ Len(edges) = RefCount(Doc, Len(Doc.dashboards))
        /\ Cardinality(DatasetNodeIdx) = Cardinality(ReferencedArns(Doc))
        /\ \A i \in DatasetNodeIdx :
              \E a \in ReferencedArns(Doc) : nodes[i].id = NameOf(Doc, a)

C3_Witness ==
    /\ CoreDone
    /\ HasDuplicateRef(Doc)
    /\ Len(edges) = 3
    /\ Cardinality(DatasetNodeIdx) = 2
    /\ Len(orphans) = 1

\* C4: a run of the core on a snapshot with a dangling reference ends without
\* an exception, and the node and the edges of the dangling identifier carry
\* the placeholder name.
C4_DanglingResilience ==
    (CoreEntered /\ DanglingArns(Doc) /= {}) =>
        /\ exception = ""
        /\ \E i \in DatasetNodeIdx : nodes[i].id = UnknownDataset
        /\ \A i \in 1..Len(Doc.dashboards) :
              \A k \in 1..Len(Doc.dashboards[i].used_datasets) :
                 Doc.dashboards[i].used_datasets[k] \in DanglingArns(Doc)
                    => edges[RefCount(Doc, i - 1) + k].source = UnknownDataset

\* C5: a run of the core on a snapshot with both keys ends without an
\* exception; with no dashboards every dataset is an orphan and no dashboard
\* is affected.
C5_CoreTotal ==
    CoreEntered =>
        /\ exception = ""
        /\ Len(Doc.dashboards) = 0 => (orphans = Doc.datasets /\ affected = <<>>)

\* C6: a run loads the snapshot and enters the core only if password_correct
\* held when the run started; the flag turns true only in a run started by
\* Login with the configured password; Login with another password leaves it
\* false and ends the run at the error message.
C6_AuthBoundary ==
    [][ /\ (page' \in {"start", "core", "exception"} \/ data' /= None)
            => password_correct
        /\ (~password_correct /\ password_correct')
            => (login_pressed' /\ password' = APP_PASSWORD)
        /\ (~password_correct /\ login_pressed' /\ password' /= APP_PASSWORD)
            => (~password_correct' /\ page' = "login_error")
      ]_vars

C6_Witness ==
    /\ CoreDone
    /\ password_correct
    /\ login_pressed
    /\ orphans /= <<>>

\* the position of a row in a frame whose rows are distinct
PosIn(df, row) == CHOOSE i \in 1..Len(df) : df[i] = row

\* C7: the orphans are the datasets with an unreferenced identifier, each
\* once, in the order of the dataset sequence; the dataset sequence is as it
\* was loaded; and a further run on the same snapshot yields the same orphans.
C7_OrphanDetector ==
    /\ [](CoreDone =>
            /\ Range(orphans) =
                  { d \in Range(Doc.datasets) : d.arn \notin ReferencedArns(Doc) }
            /\ \A i, j \in 1..Len(orphans) :
                  i < j => PosIn(Doc.datasets, orphans[i])
                              < PosIn(Doc.datasets, orphans[j])
            /\ df_data = Doc.datasets)
    /\ [][(CoreDone /\ CoreDone') => orphans' = orphans]_vars

C7_Witness ==
    /\ CoreDone
    /\ Len(Doc.datasets) = 3
    /\ Len(orphans) = 2
    /\ orphans[1].arn = "a1" /\ orphans[2].arn = "a3"

\* C8: the identifier resolved from the selected name is that of the first
\* dataset with this name, and the affected dashboards are those using this
\* identifier, each once, in dashboard order.
C8_FirstMatch ==
    CoreDone =>
        /\ \E i \in 1..Len(Doc.datasets) :
              /\ Doc.datasets[i].name = selected_dataset_name
              /\ \A j \in 1..(i - 1) : Doc.datasets[j].name /= selected_dataset_name
              /\ selected_arn = Doc.datasets[i].arn
        /\ Range(affected) =
              { r \in Range(Doc.dashboards) :
                  \E k \in 1..Len(r.used_datasets) : r.used_datasets[k] = selected_arn }
        /\ \A i, j \in 1..Len(affected) :
              i < j => PosIn(Doc.dashboards, affected[i])
                          < PosIn(Doc.dashboards, affected[j])

C8_Witness ==
    /\ CoreDone
    /\ Len(Doc.datasets) >= 2
    /\ Doc.datasets[1].name = selected_dataset_name
    /\ Doc.datasets[2].name = selected_dataset_name
    /\ Len(affected) = 2
    /\ Affected(df_dash, Doc.datasets[2].arn) = <<>>

\* C9: no two nodes of the graph have the same id.
C9_UniqueNodeIds ==
    CoreDone =>
        \A i, j \in 1..Len(nodes) : i /= j => nodes[i].id /= nodes[j].id

\* C10: the edge of the k-th reference of the i-th dashboard runs from the
\* name the referenced identifier stands for, which is the id of a dataset
\* node, to the id of the i-th dashboard's node.
C10_EdgeEndpoints ==
    CoreDone =>
        /\ Len(edges) = RefCount(Doc, Len(Doc.dashboards))
        /\ \A i \in 1..Len(Doc.dashboards) :
              /\ nodes[i].color = Orange
              /\ nodes[i].id = Doc.dashboards[i].name
              /\ \A k \in 1..Len(Doc.dashboards[i].used_datasets) :
                    LET e == edges[RefCount(Doc, i - 1) + k] IN
                    /\ e.source = NameOf(Doc, Doc.dashboards[i].used_datasets[k])
                    /\ e.target = nodes[i].id
                    /\ \E n \in DatasetNodeIdx : nodes[n].id = e.source

C10_Witness ==
    /\ CoreDone
    /\ Len(edges) = 3
    /\ DanglingArns(Doc) /= {}
    /\ \E e \in Range(edges) : e.source = UnknownDataset
    /\ \E e \in Range(edges) : e.source /= UnknownDataset /\ e.source /= e.target

====
